---- MODULE Spec2Model ----
(***************************************************************************)
(* The in-page click-latency probe of content.js as a state machine.       *)
(*                                                                         *)
(* Representation.  A nullable timestamp or number is a sequence of length *)
(* at most one: <<>> is null / "N/A", <<v>> is the value v.  A timer id or *)
(* an observer reference is a positive integer, 0 is null (falsy, as in    *)
(* the `if (timeoutId)` tests of the source).  The clock counts whole      *)
(* milliseconds; x.toFixed(1) of a whole number of milliseconds is that    *)
(* number with one decimal digit, kept here as a count of tenths.          *)
(*                                                                         *)
(* The host (browser) side is modelled explicitly: `timers` is the set of  *)
(* pending setTimeout entries, `observers` the set of connected            *)
(* MutationObservers, `listeners` the registered event listeners and       *)
(* `overlaysInDom` the number of overlay elements attached to the          *)
(* document.  The probe's own variables only hold references into these.   *)
(***************************************************************************)
EXTENDS Integers, Sequences, FiniteSets, TLC

TIMEOUT_DURATION_MS == 2000

\* Bounds of the model.
MaxTicks == 4
MaxBatch == 2
MaxMs == 1100
MaxView == 300
MaxInstances == 3
MaxClicks == 3

\* Clock advances the environment may make between two events.
Deltas == {50, 70, TIMEOUT_DURATION_MS}

VARIABLES
  \* closure state of the probe (content.js:14-22)
  mousedownTimestamp, mouseupTimestamp, mutationObserver, earlyMutationObserver,
  timeoutId, startMonitoringTimeoutId, displayElement, mutationDetectedBeforeMouseup,
  \* window globals
  framesMonitorActive, cleanupDefined,
  \* instances of the script started so far in this page, and the superseded
  \* ones that still hold a DOMContentLoaded listener (pending) or pointer
  \* listeners and an overlay (live)
  instances, orphanPending, orphanLive,
  \* host: clock, timers, observers, listeners, document
  now, ticks, timers, observers, listeners, readyState,
  overlaysInDom, displayText, displayVisible,
  \* history: the batch handed to an observer callback by the last step, and
  \* the callbacks of what the last step released if it was a press
  lastBatch, discarded,
  \* argument and result of the frame conversion (used by SpecFrames only)
  fIn, fOut,
  \* argument and result of the overlay positioning (used by SpecPosition only)
  pIn, pOut,
  \* the extension's service worker (background.js): the tabs tracked as active,
  \* the badge of the tab, the injectScript / removeScript calls in flight, the
  \* toolbar clicks so far, and whether a chrome.scripting call has rejected
  activeTabs, badgeText, ops, clicks, rejected

cycleVars == <<mousedownTimestamp, mouseupTimestamp, mutationDetectedBeforeMouseup>>
handleVars == <<mutationObserver, earlyMutationObserver, timeoutId, startMonitoringTimeoutId>>
displayVars == <<displayElement, overlaysInDom, displayText, displayVisible>>
windowVars == <<framesMonitorActive, cleanupDefined, instances, orphanPending, orphanLive>>
clockVars == <<now, ticks>>
frameVars == <<fIn, fOut, pIn, pOut>>
bgVars == <<activeTabs, badgeText, ops, clicks, rejected>>
pageVars == <<cycleVars, handleVars, displayVars, windowVars, clockVars, timers, observers,
              listeners, readyState, lastBatch, discarded>>
vars == <<pageVars, frameVars, bgVars>>

----------------------------------------------------------------------------
(* Pure helpers *)

CeilDiv(n, d) == -((-n) \div d)

ToFixed1(ms) == ms * 10

CalculateFramesFloor(ms) ==
  IF ms = <<>> \/ ms[1] < 0
    THEN [f60 |-> <<>>, f120 |-> <<>>]
    ELSE [f60 |-> <<(ms[1] * 60) \div 1000>>, f120 |-> <<(ms[1] * 120) \div 1000>>]

\* calculateFrames: Math.ceil(ms / (1000 / 60)) and Math.ceil(ms / (1000 / 120)).
\* On whole (and tenth-of-a-) millisecond durations the IEEE quotient rounds up
\* to the same integer as the exact quotient ms * hz / 1000.
CalculateFrames(ms) ==
  IF ms = <<>> \/ ms[1] < 0
    THEN [f60 |-> <<>>, f120 |-> <<>>]
    ELSE [f60 |-> <<CeilDiv(ms[1] * 60, 1000)>>, f120 |-> <<CeilDiv(ms[1] * 120, 1000)>>]

\* Mutation records: type, target and attributeName as the filter reads them.
\* Targets: the overlay element, a text node whose parentNode is the overlay,
\* another element of the page, a text node of the page.
Records ==
  { [type |-> "attributes", target |-> "overlay", attributeName |-> "style"],
    [type |-> "attributes", target |-> "overlay", attributeName |-> "class"],
    [type |-> "attributes", target |-> "page", attributeName |-> "style"],
    [type |-> "characterData", target |-> "overlayText", attributeName |-> ""],
    [type |-> "characterData", target |-> "pageText", attributeName |-> ""],
    [type |-> "childList", target |-> "overlay", attributeName |-> ""],
    [type |-> "childList", target |-> "page", attributeName |-> ""] }

Batches == UNION { [1..n -> Records] : n \in 1..MaxBatch }

SingleRecordBatches == [1..1 -> Records]

ParentIsOverlay(target) == target = "overlayText"

IsIgnorableNever(mutation, displayElem) == FALSE

IsIgnorableAnyOverlayAttr(mutation, displayElem) ==
  IF ~displayElem THEN FALSE
  ELSE IF mutation.type = "attributes" /\ mutation.target = "overlay" THEN TRUE
  ELSE IF mutation.type = "characterData" /\ ParentIsOverlay(mutation.target) THEN TRUE
  ELSE IF mutation.type = "childList" /\ mutation.target = "overlay" THEN TRUE
  ELSE FALSE

IsIgnorableSelfMutation(mutation, displayElem) ==
  IF ~displayElem THEN FALSE
  ELSE IF mutation.type = "attributes" /\ mutation.target = "overlay"
          /\ mutation.attributeName = "style" THEN TRUE
  ELSE IF mutation.type = "characterData" /\ ParentIsOverlay(mutation.target) THEN TRUE
  ELSE IF mutation.type = "childList" /\ mutation.target = "overlay" THEN TRUE
  ELSE FALSE

\* The `for ... break` loop of both observer callbacks.
RECURSIVE ContainsOnlyIgnorableFrom(_, _, _)
ContainsOnlyIgnorableFrom(mutationsList, i, displayElem) ==
  IF i > Len(mutationsList) THEN TRUE
  ELSE IF ~IsIgnorableSelfMutation(mutationsList[i], displayElem) THEN FALSE
  ELSE ContainsOnlyIgnorableFrom(mutationsList, i + 1, displayElem)

ContainsOnlyIgnorableMutations(mutationsList, displayElem) ==
  ContainsOnlyIgnorableFrom(mutationsList, 1, displayElem)

----------------------------------------------------------------------------
(* Display texts *)

StatusText(msg) == [head |-> msg, lines |-> <<>>, timeoutSecs |-> <<>>]

NoText == StatusText("")
PromptText == StatusText("Click to measure latency")
WatchingText == StatusText("Mousedown... Watching...")
MonitoringText == StatusText("Mouseup... Monitoring DOM...")
ErrorText == StatusText("Click error. Try again.")

TimeoutText ==
  [head |-> "No relevant DOM change detected", lines |-> <<>>,
   timeoutSecs |-> <<TIMEOUT_DURATION_MS \div 1000>>]

\* One "<label> -> DOM: <ms> ms (<f60>f@60, <f120>f@120)" line of a report.
ReportLine(label, stamp, mutationTimestamp) ==
  LET elapsed == IF stamp # <<>> THEN <<mutationTimestamp - stamp[1]>> ELSE <<>>
      frames == CalculateFrames(elapsed)
  IN [label |-> label,
      ms |-> IF stamp # <<>> THEN <<ToFixed1(mutationTimestamp - stamp[1])>> ELSE <<>>,
      f60 |-> frames.f60, f120 |-> frames.f120]

PostReportPressOnly(mutationTimestamp) ==
  [head |-> "DOM Change Detected:",
   lines |-> <<ReportLine("Mousedown", mousedownTimestamp, mutationTimestamp),
               ReportLine("Mouseup", mousedownTimestamp, mutationTimestamp)>>,
   timeoutSecs |-> <<>>]

PostReport(mutationTimestamp) ==
  [head |-> "DOM Change Detected:",
   lines |-> <<ReportLine("Mousedown", mousedownTimestamp, mutationTimestamp),
               ReportLine("Mouseup", mouseupTimestamp, mutationTimestamp)>>,
   timeoutSecs |-> <<>>]

PreReport(mutationTimestamp) ==
  [head |-> "DOM Change Detected (Pre-Mouseup):",
   lines |-> <<ReportLine("Mousedown", mousedownTimestamp, mutationTimestamp)>>,
   timeoutSecs |-> <<>>]

----------------------------------------------------------------------------
(* Host primitives *)

Ids(set) == { x.id : x \in set }

\* A reference no live entry and no variable of the probe holds.
FreshId(used) == CHOOSE i \in 1..(Cardinality(used) + 1) : i \notin used

FreshTimerId(tms) == FreshId(Ids(tms) \cup {timeoutId, startMonitoringTimeoutId})
FreshObserverId(obs) == FreshId(Ids(obs) \cup {mutationObserver, earlyMutationObserver})

ClearTimeoutNoop(tms, id) == tms

ClearTimeout(tms, id) == { t \in tms : t.id # id }

DisconnectNoop(obs, id) == obs

Disconnect(obs, id) == { o \in obs : o.id # id }

Timer(id, cb, due) == [id |-> id, cb |-> cb, due |-> due, stale |-> FALSE]
Observer(id, cb) == [id |-> id, cb |-> cb, stale |-> FALSE]

CycleCallbacks == {"startMainMonitoring", "handleTimeout"}

\* History only: what survives the press that starts a new cycle belongs to an
\* earlier cycle.
MarkStaleTimers(tms) ==
  { IF t.cb \in CycleCallbacks THEN [t EXCEPT !.stale = TRUE] ELSE t : t \in tms }
MarkStaleObservers(obs) == { [o EXCEPT !.stale = TRUE] : o \in obs }

----------------------------------------------------------------------------
(* stopMonitoring, as a function of the four handles and the host sets *)

Session ==
  [startMonitoringTimeoutId |-> startMonitoringTimeoutId,
   mutationObserver |-> mutationObserver,
   earlyMutationObserver |-> earlyMutationObserver,
   timeoutId |-> timeoutId,
   timers |-> timers,
   observers |-> observers]

StopMonitoringKeepsDeferral(s) ==
  LET s2 == IF s.mutationObserver # 0
              THEN [s EXCEPT !.observers = Disconnect(@, s.mutationObserver),
                             !.mutationObserver = 0]
              ELSE s
      s3 == IF s2.earlyMutationObserver # 0
              THEN [s2 EXCEPT !.observers = Disconnect(@, s2.earlyMutationObserver),
                              !.earlyMutationObserver = 0]
              ELSE s2
  IN IF s3.timeoutId # 0
       THEN [s3 EXCEPT !.timers = ClearTimeout(@, s3.timeoutId), !.timeoutId = 0]
       ELSE s3

StopMonitoring(s) ==
  LET s1 == IF s.startMonitoringTimeoutId # 0
              THEN [s EXCEPT !.timers = ClearTimeout(@, s.startMonitoringTimeoutId),
                             !.startMonitoringTimeoutId = 0]
              ELSE s
      s2 == IF s1.mutationObserver # 0
              THEN [s1 EXCEPT !.observers = Disconnect(@, s1.mutationObserver),
                              !.mutationObserver = 0]
              ELSE s1
      s3 == IF s2.earlyMutationObserver # 0
              THEN [s2 EXCEPT !.observers = Disconnect(@, s2.earlyMutationObserver),
                              !.earlyMutationObserver = 0]
              ELSE s2
  IN IF s3.timeoutId # 0
       THEN [s3 EXCEPT !.timers = ClearTimeout(@, s3.timeoutId), !.timeoutId = 0]
       ELSE s3

\* updateDisplayPosition without the lower clamp on the horizontal axis.
UpdateDisplayPositionNoClampX(p) ==
  IF ~p.displayElement \/ p.visibility = "hidden" THEN p.style
  ELSE LET offsetX == 15
           offsetY == 15
           x0 == p.x + offsetX
           y0 == p.y + offsetY
           finalX == IF x0 + p.elWidth > p.winWidth - 10
                       THEN p.x - p.elWidth - offsetX ELSE x0
           y1 == IF y0 + p.elHeight > p.winHeight - 10
                   THEN p.y - p.elHeight - offsetY ELSE y0
           finalY == IF y1 < 10 THEN 10 ELSE y1
       IN [left |-> finalX, top |-> finalY]

\* updateDisplayPosition: p holds the overlay (present?, visibility, rendered
\* size, current style), the last pointer position and the viewport size; the
\* result is the overlay's style.left / style.top in px.
UpdateDisplayPosition(p) ==
  IF ~p.displayElement \/ p.visibility = "hidden" THEN p.style
  ELSE LET offsetX == 15
           offsetY == 15
           x0 == p.x + offsetX
           y0 == p.y + offsetY
           x1 == IF x0 + p.elWidth > p.winWidth - 10
                   THEN p.x - p.elWidth - offsetX ELSE x0
           finalX == IF x1 < 10 THEN 10 ELSE x1
           y1 == IF y0 + p.elHeight > p.winHeight - 10
                   THEN p.y - p.elHeight - offsetY ELSE y0
           finalY == IF y1 < 10 THEN 10 ELSE y1
       IN [left |-> finalX, top |-> finalY]

\* updateDisplayText: create the overlay if it is missing, set the text, show it.
UpdateDisplayText(text) ==
  /\ displayElement' = TRUE
  /\ overlaysInDom' = IF displayElement THEN overlaysInDom ELSE overlaysInDom + 1
  /\ displayText' = text
  /\ displayVisible' = TRUE

PointerListeners == {"mousedown", "mouseup", "mousemove"}

----------------------------------------------------------------------------
(* Initial states: the script has just run (content.js:6-22, 392-420) *)

Blank ==
  /\ mousedownTimestamp = <<>>
  /\ mouseupTimestamp = <<>>
  /\ mutationObserver = 0
  /\ earlyMutationObserver = 0
  /\ timeoutId = 0
  /\ startMonitoringTimeoutId = 0
  /\ mutationDetectedBeforeMouseup = FALSE
  /\ framesMonitorActive = TRUE
  /\ cleanupDefined = TRUE
  /\ instances = 1
  /\ orphanPending = 0
  /\ orphanLive = 0
  /\ now = 0
  /\ ticks = 0
  /\ observers = {}
  /\ lastBatch = <<>>
  /\ discarded = {}

\* document.readyState was "loading": init waits for DOMContentLoaded.
InitLoading ==
  /\ Blank
  /\ readyState = "loading"
  /\ listeners = {"DOMContentLoaded"}
  /\ timers = {}
  /\ displayElement = FALSE
  /\ overlaysInDom = 0
  /\ displayText = NoText
  /\ displayVisible = FALSE

\* Otherwise init() has run at once.
InitLoaded ==
  /\ Blank
  /\ readyState = "interactive"
  /\ listeners = PointerListeners
  /\ timers = {Timer(1, "positionUpdate", 50)}
  /\ displayElement = TRUE
  /\ overlaysInDom = 1
  /\ displayText = PromptText
  /\ displayVisible = TRUE

\* The tab of the page, as the service worker knows it.
Tabs == {1}

\* The service worker after injectScript has completed for the tab.
BgInjected ==
  /\ activeTabs = Tabs
  /\ badgeText = "ON"
  /\ ops = {}
  /\ clicks = 0
  /\ rejected = FALSE

Init ==
  /\ InitLoading \/ InitLoaded
  /\ BgInjected
  /\ fIn = <<>>
  /\ fOut = <<>>
  /\ pIn = <<>>
  /\ pOut = <<>>

----------------------------------------------------------------------------
(* Actions *)

\* The clock advances.
Tick(deltas) ==
  \E d \in deltas :
    /\ ticks < MaxTicks
    /\ now' = now + d
    /\ ticks' = ticks + 1
    /\ lastBatch' = <<>>
    /\ discarded' = {}
    /\ UNCHANGED <<cycleVars, handleVars, displayVars, windowVars, timers, observers,
                   listeners, readyState, frameVars, bgVars>>

\* The document finishes loading; the listener of content.js:417 runs init().
DOMContentLoaded ==
  /\ readyState = "loading"
  /\ readyState' = "interactive"
  /\ lastBatch' = <<>>
  /\ discarded' = {}
  /\ IF "DOMContentLoaded" \in listeners
       THEN /\ listeners' = listeners \cup PointerListeners
            /\ UpdateDisplayText(PromptText)
            /\ timers' = timers \cup {Timer(FreshTimerId(timers), "positionUpdate", now + 50)}
       ELSE UNCHANGED <<listeners, displayVars, timers>>
  \* the listeners of superseded instances run their init() as well
  /\ orphanLive' = orphanLive + orphanPending
  /\ orphanPending' = 0
  /\ UNCHANGED <<cycleVars, handleVars, framesMonitorActive, cleanupDefined, instances,
                 clockVars, observers, frameVars, bgVars>>

\* The 50 ms timer of init(): repositions the overlay if it still exists.
PositionTimerFires ==
  \E t \in timers :
    /\ t.cb = "positionUpdate"
    /\ now >= t.due
    /\ timers' = timers \ {t}
    /\ lastBatch' = <<>>
    /\ discarded' = {}
    /\ UNCHANGED <<cycleVars, handleVars, displayVars, windowVars, clockVars, observers,
                   listeners, readyState, frameVars, bgVars>>

OnMouseDown ==
  \E button \in {0, 2} :
    /\ "mousedown" \in listeners
    /\ IF button # 0
         THEN UNCHANGED vars
         ELSE LET s == StopMonitoring(Session)
                  id == FreshId(Ids(s.observers) \cup {s.mutationObserver})
              IN /\ mouseupTimestamp' = <<>>
                 /\ mutationDetectedBeforeMouseup' = FALSE
                 /\ mousedownTimestamp' = <<now>>
                 /\ UpdateDisplayText(WatchingText)
                 /\ mutationObserver' = s.mutationObserver
                 /\ timeoutId' = s.timeoutId
                 /\ startMonitoringTimeoutId' = s.startMonitoringTimeoutId
                 /\ earlyMutationObserver' = id
                 /\ observers' = MarkStaleObservers(s.observers)
                                   \cup {Observer(id, "handleEarlyMutation")}
                 /\ timers' = MarkStaleTimers(s.timers)
                 /\ lastBatch' = <<>>
                 /\ discarded' = { x.cb : x \in (observers \ s.observers)
                                                 \cup (timers \ s.timers) }
                 /\ UNCHANGED <<windowVars, clockVars, listeners, readyState, frameVars, bgVars>>

MousedownMissingNever == FALSE

\* `mousedownTimestamp === null` of onMouseUp.
MousedownMissing == mousedownTimestamp = <<>>

EarlyMutationHandledNever == FALSE

\* `if (mutationDetectedBeforeMouseup)` of onMouseUp.
EarlyMutationHandled == mutationDetectedBeforeMouseup

ReleaseUnrecordedAlways == TRUE

\* `if (mouseupTimestamp === null)` of onMouseUp.
ReleaseUnrecorded == mouseupTimestamp = <<>>

OnMouseUp ==
  \E button \in {0, 2} :
    /\ "mouseup" \in listeners
    /\ IF button # 0 THEN UNCHANGED vars
       ELSE IF MousedownMissing
         THEN /\ UpdateDisplayText(PromptText)
              /\ UNCHANGED <<cycleVars, handleVars, windowVars, clockVars, timers,
                             observers, listeners, readyState, lastBatch, discarded, frameVars, bgVars>>
       ELSE IF EarlyMutationHandled THEN UNCHANGED vars
       ELSE /\ observers' = IF earlyMutationObserver # 0
                              THEN Disconnect(observers, earlyMutationObserver)
                              ELSE observers
            /\ earlyMutationObserver' = 0
            /\ IF ReleaseUnrecorded
                 THEN LET id == FreshTimerId(timers)
                      IN /\ mouseupTimestamp' = <<now>>
                         /\ UpdateDisplayText(MonitoringText)
                         /\ startMonitoringTimeoutId' = id
                         /\ timers' = timers \cup {Timer(id, "startMainMonitoring", now + 0)}
                 ELSE UNCHANGED <<mouseupTimestamp, displayVars, startMonitoringTimeoutId,
                                  timers>>
            /\ lastBatch' = <<>>
            /\ discarded' = {}
            /\ UNCHANGED <<mousedownTimestamp, mutationDetectedBeforeMouseup,
                           mutationObserver, timeoutId, windowVars, clockVars, listeners,
                           readyState, frameVars, bgVars>>

DeadlineDueFromPress == mousedownTimestamp[1] + TIMEOUT_DURATION_MS

\* When the timer of setTimeout(handleTimeout, TIMEOUT_DURATION_MS) is due.
DeadlineDue == now + TIMEOUT_DURATION_MS

\* The setTimeout(startMainMonitoring, 0) of onMouseUp fires.
StartMainMonitoring ==
  \E t \in timers :
    /\ t.cb = "startMainMonitoring"
    /\ now >= t.due
    /\ startMonitoringTimeoutId' = 0
    /\ IF mouseupTimestamp = <<>> \/ mousedownTimestamp = <<>>
         THEN /\ UpdateDisplayText(ErrorText)
              /\ timers' = timers \ {t}
              /\ UNCHANGED <<mutationObserver, timeoutId, observers>>
         ELSE LET fired == timers \ {t}
                  oid == FreshObserverId(observers)
                  tid == FreshId(Ids(fired) \cup {timeoutId})
              IN /\ mutationObserver' = oid
                 /\ observers' = observers \cup {Observer(oid, "handleMutation")}
                 /\ timeoutId' = tid
                 /\ timers' = fired \cup
                       {Timer(tid, "handleTimeout", DeadlineDue)}
                 /\ UNCHANGED displayVars
    /\ lastBatch' = <<>>
    /\ discarded' = {}
    /\ UNCHANGED <<cycleVars, earlyMutationObserver, windowVars, clockVars, listeners,
                   readyState, frameVars, bgVars>>

\* Callback of the main observer on a batch of records.
HandleMutation(mutationsList, keep) ==
  LET mutationTimestamp == now
  IN /\ lastBatch' = IF keep THEN mutationsList ELSE <<>>
     /\ discarded' = {}
     /\ IF ContainsOnlyIgnorableMutations(mutationsList, displayElement)
          THEN UNCHANGED <<handleVars, timers, observers, displayVars>>
          ELSE LET s == StopMonitoring(Session)
               IN /\ startMonitoringTimeoutId' = s.startMonitoringTimeoutId
                  /\ mutationObserver' = s.mutationObserver
                  /\ earlyMutationObserver' = s.earlyMutationObserver
                  /\ timeoutId' = s.timeoutId
                  /\ timers' = s.timers
                  /\ observers' = s.observers
                  /\ UpdateDisplayText(PostReport(mutationTimestamp))
     /\ UNCHANGED <<cycleVars, windowVars, clockVars, listeners, readyState, frameVars, bgVars>>

\* Callback of the early observer on a batch of records.
HandleEarlyMutation(mutationsList, keep) ==
  LET mutationTimestamp == now
  IN /\ lastBatch' = IF keep THEN mutationsList ELSE <<>>
     /\ discarded' = {}
     /\ IF ContainsOnlyIgnorableMutations(mutationsList, displayElement)
          THEN UNCHANGED <<mutationDetectedBeforeMouseup, handleVars, timers, observers,
                           displayVars>>
          ELSE LET s == StopMonitoring(Session)
               IN /\ mutationDetectedBeforeMouseup' = TRUE
                  /\ startMonitoringTimeoutId' = s.startMonitoringTimeoutId
                  /\ mutationObserver' = s.mutationObserver
                  /\ earlyMutationObserver' = s.earlyMutationObserver
                  /\ timeoutId' = s.timeoutId
                  /\ timers' = s.timers
                  /\ observers' = s.observers
                  /\ UpdateDisplayText(PreReport(mutationTimestamp))
     /\ UNCHANGED <<mousedownTimestamp, mouseupTimestamp, windowVars, clockVars,
                    listeners, readyState, frameVars, bgVars>>

\* The host delivers a batch of records to a connected observer; `keep` says
\* whether the history variable records the batch.
MutationBatch(batches, keep) ==
  \E o \in observers, batch \in batches :
    IF o.cb = "handleMutation"
      THEN HandleMutation(batch, keep)
      ELSE HandleEarlyMutation(batch, keep)

\* handleTimeout without its stopMonitoring() call.
HandleTimeoutKeepsSession ==
  \E t \in timers :
    /\ t.cb = "handleTimeout"
    /\ now >= t.due
    /\ timers' = timers \ {t}
    /\ UpdateDisplayText(TimeoutText)
    /\ lastBatch' = <<>>
    /\ discarded' = {}
    /\ UNCHANGED <<cycleVars, handleVars, observers, windowVars, clockVars, listeners,
                   readyState, frameVars, bgVars>>

\* handleTimeout followed by a resetState().
HandleTimeoutResets ==
  \E t \in timers :
    /\ t.cb = "handleTimeout"
    /\ now >= t.due
    /\ LET s == StopMonitoring([Session EXCEPT !.timers = timers \ {t}])
       IN /\ startMonitoringTimeoutId' = s.startMonitoringTimeoutId
          /\ mutationObserver' = s.mutationObserver
          /\ earlyMutationObserver' = s.earlyMutationObserver
          /\ timeoutId' = s.timeoutId
          /\ timers' = s.timers
          /\ observers' = s.observers
    /\ UpdateDisplayText(TimeoutText)
    /\ mousedownTimestamp' = <<>>
    /\ mouseupTimestamp' = <<>>
    /\ mutationDetectedBeforeMouseup' = FALSE
    /\ lastBatch' = <<>>
    /\ discarded' = {}
    /\ UNCHANGED <<windowVars, clockVars, listeners, readyState, frameVars, bgVars>>

\* The deadline timer fires.
HandleTimeout ==
  \E t \in timers :
    /\ t.cb = "handleTimeout"
    /\ now >= t.due
    /\ LET s == StopMonitoring([Session EXCEPT !.timers = timers \ {t}])
       IN /\ startMonitoringTimeoutId' = s.startMonitoringTimeoutId
          /\ mutationObserver' = s.mutationObserver
          /\ earlyMutationObserver' = s.earlyMutationObserver
          /\ timeoutId' = s.timeoutId
          /\ timers' = s.timers
          /\ observers' = s.observers
    /\ UpdateDisplayText(TimeoutText)
    /\ lastBatch' = <<>>
    /\ discarded' = {}
    /\ UNCHANGED <<cycleVars, windowVars, clockVars, listeners, readyState, frameVars, bgVars>>

\* The body of window.cleanupFramesMonitor.
CleanupFramesMonitor ==
  /\ LET s == StopMonitoring(Session)
     IN /\ startMonitoringTimeoutId' = s.startMonitoringTimeoutId
        /\ mutationObserver' = s.mutationObserver
        /\ earlyMutationObserver' = s.earlyMutationObserver
        /\ timeoutId' = s.timeoutId
        /\ timers' = s.timers
        /\ observers' = s.observers
  /\ mousedownTimestamp' = <<>>
  /\ mouseupTimestamp' = <<>>
  /\ mutationDetectedBeforeMouseup' = FALSE
  /\ listeners' = listeners \ PointerListeners
  /\ overlaysInDom' = IF displayElement THEN overlaysInDom - 1 ELSE overlaysInDom
  /\ displayElement' = FALSE
  /\ displayText' = NoText
  /\ displayVisible' = FALSE
  /\ framesMonitorActive' = FALSE
  /\ cleanupDefined' = FALSE
  /\ lastBatch' = <<>>
  /\ discarded' = {}
  /\ UNCHANGED <<instances, orphanPending, orphanLive, clockVars, readyState>>

\* window.cleanupFramesMonitor(), while it is defined.
Cleanup ==
  /\ cleanupDefined
  /\ CleanupFramesMonitor
  /\ UNCHANGED <<frameVars, bgVars>>

\* The script is run again in the page (content.js:5-22, 392-420).  With the
\* flag set it returns at once.  Otherwise a new closure starts: the previous
\* instance keeps whatever listeners and overlay it still has (counted in
\* orphanPending / orphanLive); its timers and observers act on its own closure
\* only and are not followed further.
RunContentScript ==
  IF framesMonitorActive THEN UNCHANGED pageVars
  ELSE /\ instances < MaxInstances
       /\ instances' = instances + 1
       /\ framesMonitorActive' = TRUE
       /\ cleanupDefined' = TRUE
       /\ orphanPending' = IF readyState = "loading" /\ "DOMContentLoaded" \in listeners
                              THEN orphanPending + 1 ELSE orphanPending
       /\ orphanLive' = IF listeners \cap PointerListeners # {} \/ displayElement
                           THEN orphanLive + 1 ELSE orphanLive
       /\ mousedownTimestamp' = <<>>
       /\ mouseupTimestamp' = <<>>
       /\ mutationObserver' = 0
       /\ earlyMutationObserver' = 0
       /\ timeoutId' = 0
       /\ startMonitoringTimeoutId' = 0
       /\ mutationDetectedBeforeMouseup' = FALSE
       /\ observers' = {}
       /\ IF readyState = "loading"
            THEN /\ listeners' = {"DOMContentLoaded"}
                 /\ timers' = {}
                 /\ displayElement' = FALSE
                 /\ overlaysInDom' = 0
                 /\ displayText' = NoText
                 /\ displayVisible' = FALSE
            ELSE /\ listeners' = PointerListeners
                 /\ timers' = {Timer(1, "positionUpdate", now + 50)}
                 /\ displayElement' = TRUE
                 /\ overlaysInDom' = 1
                 /\ displayText' = PromptText
                 /\ displayVisible' = TRUE
       /\ lastBatch' = <<>>
       /\ discarded' = {}
       /\ UNCHANGED <<clockVars, readyState>>

RunScript == RunContentScript /\ UNCHANGED <<frameVars, bgVars>>

Next ==
  \/ Tick(Deltas)
  \/ DOMContentLoaded
  \/ PositionTimerFires
  \/ OnMouseDown
  \/ OnMouseUp
  \/ StartMainMonitoring
  \/ MutationBatch(SingleRecordBatches, FALSE)
  \/ HandleTimeout
  \/ Cleanup

Spec == Init /\ [][Next]_vars

\* The same machine with the host's scheduling guarantees: a timer that is due
\* is eventually run, and the clock keeps advancing (up to MaxTicks).
Fairness ==
  /\ WF_vars(Tick(Deltas))
  /\ WF_vars(StartMainMonitoring)
  /\ WF_vars(HandleTimeout)

SpecLive == Spec /\ Fairness

\* The click cycle alone (press, release, deferral, observer callbacks) under
\* every batch of up to MaxBatch records, with the delivered batch kept in
\* lastBatch.
NextFilter ==
  \/ DOMContentLoaded
  \/ OnMouseDown
  \/ OnMouseUp
  \/ StartMainMonitoring
  \/ MutationBatch(Batches, TRUE)

SpecFilter == Init /\ [][NextFilter]_vars

\* Starting, stopping and restarting the script around the load of the document
\* and the click cycle, without the clock.
NextStart ==
  \/ RunScript
  \/ Cleanup
  \/ DOMContentLoaded
  \/ OnMouseDown
  \/ OnMouseUp
  \/ StartMainMonitoring
  \/ MutationBatch(SingleRecordBatches, FALSE)

SpecStart == Init /\ [][NextStart]_vars

----------------------------------------------------------------------------
(* The service worker (background.js) driving the page of one tab.  Every     *)
(* await of injectScript / removeScript is a point where other clicks and the *)
(* steps of other calls can run.  The tab shows an ordinary page, so the      *)
(* restricted-URL branch of the click listener (background.js:91-117) is not  *)
(* taken, and the tab is neither closed nor navigated.                        *)

Op(id, tabId, fn, pc) == [id |-> id, tabId |-> tabId, fn |-> fn, pc |-> pc]

AtPc(op, pc) == [op EXCEPT !.pc = pc]

\* chrome.action.onClicked: toggle on activeTabs.has(tab.id); the called async
\* function runs up to its first await, which issues the first scripting call.
OnClicked ==
  \E tab \in Tabs :
    /\ clicks < MaxClicks
    /\ clicks' = clicks + 1
    /\ ops' = ops \cup
         { IF tab \in activeTabs
             THEN Op(clicks + 1, tab, "removeScript", "executeScript")
             ELSE Op(clicks + 1, tab, "injectScript", "insertCSS") }
    /\ UNCHANGED <<activeTabs, badgeText, rejected, pageVars, frameVars>>

\* injectScript: `await chrome.scripting.insertCSS` resolves; executeScript of
\* content.js is issued.
InsertCSSResolves ==
  \E op \in ops :
    /\ op.fn = "injectScript" /\ op.pc = "insertCSS"
    /\ ops' = (ops \ {op}) \cup {AtPc(op, "executeScript")}
    /\ UNCHANGED <<activeTabs, badgeText, clicks, rejected, pageVars, frameVars>>

\* injectScript: content.js runs in the page; the reply is on its way back.
ExecuteContentScript ==
  \E op \in ops :
    /\ op.fn = "injectScript" /\ op.pc = "executeScript"
    /\ RunContentScript
    /\ ops' = (ops \ {op}) \cup {AtPc(op, "resume")}
    /\ UNCHANGED <<activeTabs, badgeText, clicks, rejected, frameVars>>

\* activeTabs.add(tabId); updateIcon(tabId, true).
ActiveTabsAdd(tabId) ==
  /\ activeTabs' = activeTabs \cup {tabId}
  /\ badgeText' = "ON"

\* activeTabs.delete(tabId); updateIcon(tabId, false)  (the finally block).
ActiveTabsDelete(tabId) ==
  /\ activeTabs' = activeTabs \ {tabId}
  /\ badgeText' = ""

\* injectScript: `await chrome.scripting.executeScript` resolves.
InjectResumes ==
  \E op \in ops :
    /\ op.fn = "injectScript" /\ op.pc = "resume"
    /\ ActiveTabsAdd(op.tabId)
    /\ ops' = ops \ {op}
    /\ UNCHANGED <<clicks, rejected, pageVars, frameVars>>

\* injectScript: a scripting call rejects (the script has not run); the catch
\* block calls removeScript(tabId).
InjectRejects ==
  \E op \in ops :
    /\ op.fn = "injectScript" /\ op.pc \in {"insertCSS", "executeScript"}
    /\ ops' = (ops \ {op}) \cup {Op(op.id, op.tabId, "removeScript", "executeScript")}
    /\ rejected' = TRUE
    /\ UNCHANGED <<activeTabs, badgeText, clicks, pageVars, frameVars>>

\* removeScript: the injected function runs in the page and calls
\* window.cleanupFramesMonitor if it is a function; removeCSS is issued.
ExecuteCleanup ==
  \E op \in ops :
    /\ op.fn = "removeScript" /\ op.pc = "executeScript"
    /\ IF cleanupDefined THEN CleanupFramesMonitor ELSE UNCHANGED pageVars
    /\ ops' = (ops \ {op}) \cup {AtPc(op, "removeCSS")}
    /\ UNCHANGED <<activeTabs, badgeText, clicks, rejected, frameVars>>

\* removeScript: `await chrome.scripting.removeCSS` resolves; finally block.
RemoveCSSResolves ==
  \E op \in ops :
    /\ op.fn = "removeScript" /\ op.pc = "removeCSS"
    /\ ActiveTabsDelete(op.tabId)
    /\ ops' = ops \ {op}
    /\ UNCHANGED <<clicks, rejected, pageVars, frameVars>>

\* removeScript: a scripting call rejects; catch, then the finally block.
RemoveRejects ==
  \E op \in ops :
    /\ op.fn = "removeScript"
    /\ ActiveTabsDelete(op.tabId)
    /\ ops' = ops \ {op}
    /\ rejected' = TRUE
    /\ UNCHANGED <<clicks, pageVars, frameVars>>

\* A page in which content.js has not run, and an idle service worker.
InitBackground ==
  /\ mousedownTimestamp = <<>>
  /\ mouseupTimestamp = <<>>
  /\ mutationObserver = 0
  /\ earlyMutationObserver = 0
  /\ timeoutId = 0
  /\ startMonitoringTimeoutId = 0
  /\ mutationDetectedBeforeMouseup = FALSE
  /\ framesMonitorActive = FALSE
  /\ cleanupDefined = FALSE
  /\ instances = 0
  /\ orphanPending = 0
  /\ orphanLive = 0
  /\ now = 0
  /\ ticks = 0
  /\ timers = {}
  /\ observers = {}
  /\ listeners = {}
  /\ readyState \in {"loading", "interactive"}
  /\ displayElement = FALSE
  /\ overlaysInDom = 0
  /\ displayText = NoText
  /\ displayVisible = FALSE
  /\ lastBatch = <<>>
  /\ discarded = {}
  /\ fIn = <<>> /\ fOut = <<>> /\ pIn = <<>> /\ pOut = <<>>
  /\ activeTabs = {}
  /\ badgeText = ""
  /\ ops = {}
  /\ clicks = 0
  /\ rejected = FALSE

NextBackground ==
  \/ OnClicked
  \/ InsertCSSResolves
  \/ ExecuteContentScript
  \/ InjectResumes
  \/ InjectRejects
  \/ ExecuteCleanup
  \/ RemoveCSSResolves
  \/ RemoveRejects
  \/ DOMContentLoaded

SpecBackground == InitBackground /\ [][NextBackground]_vars

----------------------------------------------------------------------------
(* The frame conversion on its own: every argument, then its result *)

FrameInputs == {<<>>} \cup { <<ms>> : ms \in -3..MaxMs }

InitFrames ==
  /\ InitLoaded
  /\ BgInjected
  /\ fIn \in FrameInputs
  /\ fOut = <<>>
  /\ pIn = <<>>
  /\ pOut = <<>>

ApplyCalculateFrames ==
  /\ fOut = <<>>
  /\ fOut' = <<CalculateFrames(fIn)>>
  /\ UNCHANGED <<cycleVars, handleVars, displayVars, windowVars, clockVars, timers,
                 observers, listeners, readyState, lastBatch, discarded, fIn, pIn, pOut, bgVars>>

NextFrames == ApplyCalculateFrames

SpecFrames == InitFrames /\ [][NextFrames]_vars

----------------------------------------------------------------------------
(* The overlay positioning on its own: every argument, then its result *)

\* Pointer coordinates inside a viewport side of length win.
PointerCoords(win) == { c \in 0..win : c % 50 = 0 }

ViewSizes == {200, MaxView}
ElementSizes == {100, 200, 290}

\* The overlay is missing, hidden, or shown.
OverlayStates ==
  { [displayElement |-> FALSE, visibility |-> "hidden"],
    [displayElement |-> TRUE, visibility |-> "hidden"],
    [displayElement |-> TRUE, visibility |-> "visible"] }

PositionInputs ==
  { [displayElement |-> o.displayElement, visibility |-> o.visibility,
     x |-> x, y |-> y, elWidth |-> ew, elHeight |-> eh,
     winWidth |-> ww, winHeight |-> wh, style |-> [left |-> 0, top |-> 0]] :
      o \in OverlayStates, x \in PointerCoords(MaxView), y \in PointerCoords(MaxView),
      ew \in ElementSizes, eh \in ElementSizes, ww \in ViewSizes, wh \in ViewSizes }

InitPosition ==
  /\ InitLoaded
  /\ BgInjected
  /\ fIn = <<>>
  /\ fOut = <<>>
  /\ pIn \in { <<p>> : p \in { q \in PositionInputs :
                                   q.x <= q.winWidth /\ q.y <= q.winHeight } }
  /\ pOut = <<>>

ApplyUpdateDisplayPosition ==
  /\ pOut = <<>>
  /\ pOut' = <<UpdateDisplayPosition(pIn[1])>>
  /\ UNCHANGED <<cycleVars, handleVars, displayVars, windowVars, clockVars, timers,
                 observers, listeners, readyState, lastBatch, discarded, fIn, fOut, pIn, bgVars>>

NextPosition == ApplyUpdateDisplayPosition

SpecPosition == InitPosition /\ [][NextPosition]_vars

----------------------------------------------------------------------------
(* Shared vocabulary of the properties *)

CycleTimers(tms) == { t \in tms : t.cb \in CycleCallbacks }
DeadlineTimers(tms) == { t \in tms : t.cb = "handleTimeout" }
NoHandles ==
  /\ mutationObserver = 0
  /\ earlyMutationObserver = 0
  /\ timeoutId = 0
  /\ startMonitoringTimeoutId = 0

----------------------------------------------------------------------------
\* C1: New-cycle override.  A primary-button press, whatever the in-flight cycle
\* holds (early watcher, pending start deferral, or primary watcher and deadline),
\* leaves exactly the new early watcher connected and no deferral or deadline
\* timer pending; nothing that belongs to an earlier cycle is ever live, so no
\* callback of an earlier cycle can fire into the new one.
C1_NoStaleResource ==
  /\ \A o \in observers : ~o.stale
  /\ \A t \in timers : ~t.stale

C1_PressReleasesAll ==
  OnMouseDown =>
    /\ observers' = {Observer(earlyMutationObserver', "handleEarlyMutation")}
    /\ CycleTimers(timers') = {}
    /\ mutationObserver' = 0 /\ timeoutId' = 0 /\ startMonitoringTimeoutId' = 0
    /\ mousedownTimestamp' = <<now>>
    /\ mouseupTimestamp' = <<>>
    /\ mutationDetectedBeforeMouseup' = FALSE

C1_NewCycleOverride == []C1_NoStaleResource /\ [][C1_PressReleasesAll]_vars

\* A press has just discarded an armed primary watcher and its deadline timer.
C1_Witness ==
  /\ discarded = {"handleMutation", "handleTimeout"}
  /\ Cardinality(observers) = 1
  /\ CycleTimers(timers) = {}

\* C2: In every reachable state at most one change-observation subscription is
\* connected (never the early and the main observer together) and at most one
\* deadline timer is pending.
C2_AtMostOneSubscriptionAndDeadline ==
  /\ Cardinality(observers) <= 1
  /\ Cardinality(DeadlineTimers(timers)) <= 1
  /\ ~(mutationObserver # 0 /\ earlyMutationObserver # 0)

\* The primary watcher and its deadline are armed, in a cycle whose press came
\* after the clock had advanced.
C2_Witness ==
  /\ Cardinality(observers) = 1
  /\ Cardinality(DeadlineTimers(timers)) = 1
  /\ mutationObserver # 0
  /\ mousedownTimestamp # <<>> /\ mousedownTimestamp[1] > 0

\* C3: Once cleanup has returned, no pointer listener, observer, timer or overlay
\* element of the probe is active, and none becomes active later (there is no
\* new start in this model, so "later" is every later state).
C3_CleanupReversesEverything ==
  ~cleanupDefined =>
    /\ listeners \cap PointerListeners = {}
    /\ observers = {}
    /\ timers = {}
    /\ overlaysInDom = 0
    /\ ~displayElement

\* C4: stopMonitoring is idempotent: applied to any reachable session, a second
\* application changes nothing, the result holds no handle, no connected
\* observer, no deadline timer and no start-deferral timer, and on a session that
\* is already stopped it is the identity.
C4_StopIdempotent ==
  LET once == StopMonitoring(Session)
      twice == StopMonitoring(once)
  IN /\ twice = once
     /\ once.mutationObserver = 0 /\ once.earlyMutationObserver = 0
     /\ once.timeoutId = 0 /\ once.startMonitoringTimeoutId = 0
     /\ once.observers = {}
     /\ CycleTimers(once.timers) = {}
     /\ (NoHandles => once = Session)

\* A session with a pending start deferral, which stopping has to release.
C4_Witness ==
  /\ startMonitoringTimeoutId # 0
  /\ \E t \in timers : t.cb = "startMainMonitoring" /\ t.id = startMonitoringTimeoutId
  /\ StopMonitoring(Session) # Session

\* A record the claim attributes to the overlay: a style-attribute change of the
\* overlay, a text change whose parent is the overlay, or a child-list change
\* whose target is the overlay.
AttributableToOverlay(r) ==
  \/ r.type = "attributes" /\ r.target = "overlay" /\ r.attributeName = "style"
  \/ r.type = "characterData" /\ r.target = "overlayText"
  \/ r.type = "childList" /\ r.target = "overlay"

\* A qualifying batch: some record of it is not attributable to the overlay.
Qualifying(batch) == \E i \in 1..Len(batch) : ~AttributableToOverlay(batch[i])

\* The main (early) observer's callback runs on a qualifying batch.
MainObserverSeesChange ==
  \E o \in observers, batch \in SingleRecordBatches :
    o.cb = "handleMutation" /\ Qualifying(batch) /\ HandleMutation(batch, FALSE)

EarlyObserverSeesChange ==
  \E o \in observers, batch \in SingleRecordBatches :
    o.cb = "handleEarlyMutation" /\ Qualifying(batch) /\ HandleEarlyMutation(batch, FALSE)

\* n is the least whole number of frames of 1000/hz ms that cover ms.
IsCeilFrames(f, ms, hz) ==
  /\ Len(f) = 1
  /\ f[1] * 1000 >= ms * hz
  /\ (f[1] - 1) * 1000 < ms * hz

\* C5: End-to-end post-release measurement.  When the main observer resolves the
\* cycle, the report has two lines: press-to-change = now - pressTime and
\* release-to-change = now - releaseTime, each with its ceil-based frame counts,
\* and the watcher and the deadline timer are released; with press at 0, release
\* at 50 and the change at 120 the report reads 120.0 ms (8f@60, 15f@120) and
\* 70.0 ms (5f@60, 9f@120).
C5_ReportStep ==
  MainObserverSeesChange =>
    /\ mousedownTimestamp # <<>> /\ mouseupTimestamp # <<>>
    /\ displayText'.head = "DOM Change Detected:"
    /\ Len(displayText'.lines) = 2
    /\ LET down == displayText'.lines[1]
           up == displayText'.lines[2]
           sincePress == now - mousedownTimestamp[1]
           sinceRelease == now - mouseupTimestamp[1]
       IN /\ down.ms = <<sincePress * 10>>
          /\ IsCeilFrames(down.f60, sincePress, 60)
          /\ IsCeilFrames(down.f120, sincePress, 120)
          /\ up.ms = <<sinceRelease * 10>>
          /\ IsCeilFrames(up.f60, sinceRelease, 60)
          /\ IsCeilFrames(up.f120, sinceRelease, 120)
          /\ (mousedownTimestamp = <<0>> /\ mouseupTimestamp = <<50>> /\ now = 120) =>
               /\ down = [label |-> "Mousedown", ms |-> <<1200>>,
                          f60 |-> <<8>>, f120 |-> <<15>>]
               /\ up = [label |-> "Mouseup", ms |-> <<700>>,
                        f60 |-> <<5>>, f120 |-> <<9>>]
    /\ displayVisible'
    /\ observers' = {}
    /\ CycleTimers(timers') = {}
    /\ mutationObserver' = 0 /\ timeoutId' = 0

C5_PostReleaseReport == [][C5_ReportStep]_vars

\* Press at 0, release at 50, change at 120: the report of the scenario is on
\* screen and nothing is armed.
C5_Witness ==
  /\ mousedownTimestamp = <<0>>
  /\ mouseupTimestamp = <<50>>
  /\ displayText =
       [head |-> "DOM Change Detected:",
        lines |-> <<[label |-> "Mousedown", ms |-> <<1200>>, f60 |-> <<8>>, f120 |-> <<15>>],
                    [label |-> "Mouseup", ms |-> <<700>>, f60 |-> <<5>>, f120 |-> <<9>>]>>,
        timeoutSecs |-> <<>>]
  /\ observers = {}
  /\ CycleTimers(timers) = {}

C6_DeadlineDueAfterRelease ==
  \A t \in DeadlineTimers(timers) :
    /\ mouseupTimestamp # <<>>
    /\ t.due >= mouseupTimestamp[1] + 2000

C6_TimeoutStep ==
  HandleTimeout =>
    /\ mouseupTimestamp # <<>>
    /\ now >= mouseupTimestamp[1] + 2000
    /\ displayText'.head = "No relevant DOM change detected"
    /\ displayText'.timeoutSecs = <<2>>
    /\ observers' = {}
    /\ CycleTimers(timers') = {}

C7_EarlyResolved ==
  mutationDetectedBeforeMouseup =>
    /\ displayText.head = "DOM Change Detected (Pre-Mouseup):"
    /\ Len(displayText.lines) = 1
    /\ mousedownTimestamp # <<>>
    /\ mouseupTimestamp = <<>>
    /\ NoHandles
    /\ observers = {}
    /\ CycleTimers(timers) = {}

C7_EarlyStep ==
  EarlyObserverSeesChange =>
    /\ mutationDetectedBeforeMouseup'
    /\ displayText'.lines[1].label = "Mousedown"
    /\ displayText'.lines[1].ms = <<(now - mousedownTimestamp[1]) * 10>>
    /\ IsCeilFrames(displayText'.lines[1].f60, now - mousedownTimestamp[1], 60)
    /\ IsCeilFrames(displayText'.lines[1].f120, now - mousedownTimestamp[1], 120)

C7_ReleaseAfterEarlyIsNoop ==
  (OnMouseUp /\ mutationDetectedBeforeMouseup) =>
    UNCHANGED <<displayVars, cycleVars, handleVars, timers, observers>>

C7_EarlyResolution ==
  /\ []C7_EarlyResolved
  /\ [][C7_EarlyStep]_vars
  /\ [][C7_ReleaseAfterEarlyIsNoop]_vars

\* Press at 0, change at 50 before any release, and time has gone on to 120 (a
\* release may have arrived since): the one-line report of 50.0 ms stands.
C7_Witness ==
  /\ mutationDetectedBeforeMouseup
  /\ mousedownTimestamp = <<0>>
  /\ now = 120
  /\ displayText.lines = <<[label |-> "Mousedown", ms |-> <<500>>,
                            f60 |-> <<3>>, f120 |-> <<6>>]>>
  /\ "mouseup" \in listeners

\* C8: Batch filter.  A batch delivered to an armed watcher (early or main)
\* resolves the cycle iff some record of it is not attributable to the overlay;
\* a batch of overlay-attributable records only leaves the watcher armed and the
\* cycle and display as they were.
C8_BatchStep ==
  (lastBatch' # <<>> /\ MutationBatch(Batches, TRUE)) =>
    IF Qualifying(lastBatch')
      THEN /\ observers' = {}
           /\ CycleTimers(timers') = {}
           /\ displayText'.head \in {"DOM Change Detected:",
                                     "DOM Change Detected (Pre-Mouseup):"}
           /\ displayText'.lines # <<>>
      ELSE UNCHANGED <<cycleVars, handleVars, timers, observers, displayVars>>

C8_BatchFilter == [][C8_BatchStep]_vars

\* A batch of one overlay style change and one unrelated change has resolved
\* the cycle of the main watcher.
C8_Witness ==
  /\ lastBatch = <<[type |-> "attributes", target |-> "overlay", attributeName |-> "style"],
                   [type |-> "childList", target |-> "page", attributeName |-> ""]>>
  /\ displayText.head = "DOM Change Detected:"
  /\ observers = {}

\* C9: Frame conversion.  For a duration ms >= 0 the 60 Hz count is
\* ceil(ms * 60 / 1000) and the 120 Hz count is ceil(ms * 120 / 1000) (0 gives 0
\* and 0, 1000 gives 60 and 120); for a negative or absent duration both are N/A.
C9_FrameConversion ==
  fOut # <<>> =>
    LET r == fOut[1]
    IN IF fIn = <<>> \/ fIn[1] < 0
         THEN r.f60 = <<>> /\ r.f120 = <<>>
         ELSE /\ IsCeilFrames(r.f60, fIn[1], 60)
              /\ IsCeilFrames(r.f120, fIn[1], 120)
              /\ (fIn = <<0>> => r = [f60 |-> <<0>>, f120 |-> <<0>>])
              /\ (fIn = <<1000>> => r = [f60 |-> <<60>>, f120 |-> <<120>>])

\* 17 ms, just over one 60 Hz frame, converts to 2 and 3 frames.
C9_Witness ==
  /\ fIn = <<17>>
  /\ fOut = <<[f60 |-> <<2>>, f120 |-> <<3>>]>>

\* C10: Release without press.  A primary-button release while no pressTime is
\* recorded shows the neutral prompt and does nothing else: no releaseTime, no
\* watcher, no deferral or deadline timer, no measurement.
C10_NoPressState ==
  (mousedownTimestamp = <<>> /\ "mouseup" \in listeners) =>
    /\ mouseupTimestamp = <<>>
    /\ ~mutationDetectedBeforeMouseup
    /\ NoHandles
    /\ observers = {}
    /\ CycleTimers(timers) = {}
    /\ displayText = PromptText

C10_ReleaseStep ==
  (OnMouseUp /\ mousedownTimestamp = <<>>) =>
    /\ displayText' = PromptText
    /\ displayVisible'
    /\ UNCHANGED <<cycleVars, handleVars, timers, observers>>

C10_ReleaseWithoutPress == []C10_NoPressState /\ [][C10_ReleaseStep]_vars

\* Listeners are attached, time has passed and no press has been recorded: a
\* release here finds no pressTime.
C10_Witness ==
  /\ "mouseup" \in listeners
  /\ mousedownTimestamp = <<>>
  /\ now = 120
  /\ displayText = PromptText
  /\ CycleTimers(timers) = {}

----------------------------------------------------------------------------
\* The position one axis gets by the anchor-or-flip rule alone.
AnchorOrFlip(pointer, size, win) ==
  IF pointer + 15 + size > win - 10 THEN pointer - size - 15 ELSE pointer + 15

PositionComputed ==
  /\ pOut # <<>>
  /\ pIn[1].displayElement
  /\ pIn[1].visibility = "visible"

\* C11 as stated: on each axis the computed position is pointer + 15, or
\* pointer - size - 15 when pointer + 15 + size would exceed the viewport edge
\* minus 10, and the overlay rectangle keeps a 10-unit inset from all four edges.
C11_AnchorOrFlipKeepsInset ==
  PositionComputed =>
    LET p == pIn[1]
        r == pOut[1]
    IN /\ r.left = AnchorOrFlip(p.x, p.elWidth, p.winWidth)
       /\ r.top = AnchorOrFlip(p.y, p.elHeight, p.winHeight)
       /\ r.left >= 10 /\ r.top >= 10
       /\ r.left + p.elWidth <= p.winWidth - 10
       /\ r.top + p.elHeight <= p.winHeight - 10

\* C11, amended: on each axis the computed position is the larger of 10 and the
\* anchor-or-flip position, so left >= 10 and top >= 10 always; the far edge
\* keeps the 10-unit inset on an axis where the overlay fits (size <= viewport
\* - 20) and the pointer lies inside the viewport.
C11_ClampedAnchorOrFlip ==
  PositionComputed =>
    LET p == pIn[1]
        r == pOut[1]
        ax == AnchorOrFlip(p.x, p.elWidth, p.winWidth)
        ay == AnchorOrFlip(p.y, p.elHeight, p.winHeight)
    IN /\ r.left = IF ax < 10 THEN 10 ELSE ax
       /\ r.top = IF ay < 10 THEN 10 ELSE ay
       /\ r.left >= 10 /\ r.top >= 10
       /\ p.elWidth <= p.winWidth - 20 => r.left + p.elWidth <= p.winWidth - 10
       /\ p.elHeight <= p.winHeight - 20 => r.top + p.elHeight <= p.winHeight - 10

\* An overlay of width 200 in a 300-wide viewport with the pointer at 150: the
\* flipped position -65 is clamped to 10; vertically the overlay is flipped.
C11_Witness ==
  /\ PositionComputed
  /\ pIn[1].x = 150 /\ pIn[1].elWidth = 200 /\ pIn[1].winWidth = 300
  /\ pOut[1].left = 10
  /\ pIn[1].y = 250 /\ pIn[1].elHeight = 100 /\ pIn[1].winHeight = 300
  /\ pOut[1].top = 135

----------------------------------------------------------------------------
\* The current instance has its pointer listeners attached.
CurrentLive == listeners \cap PointerListeners # {}

\* Instances with pointer listeners attached, and overlays in the document.
LiveInstances == orphanLive + (IF CurrentLive THEN 1 ELSE 0)
OverlaysInDocument == orphanLive + overlaysInDom

\* C12: Single live instance.  At most one instance has listeners attached and
\* at most one overlay is in the document; running the script while an instance
\* is live attaches no listeners, creates no overlay and leaves the cycle state
\* and the cleanup entry point as they are; running it after cleanup starts a
\* fresh instance.
C12_StartStep ==
  RunScript =>
    IF CurrentLive \/ framesMonitorActive
      THEN UNCHANGED <<listeners, overlaysInDom, orphanPending, orphanLive, cycleVars,
                       handleVars, cleanupDefined, instances>>
      ELSE /\ instances' = instances + 1
           /\ framesMonitorActive' /\ cleanupDefined'
           /\ mousedownTimestamp' = <<>> /\ mouseupTimestamp' = <<>>
           /\ ~mutationDetectedBeforeMouseup'

C12_SingleLiveInstance ==
  /\ [](LiveInstances <= 1 /\ OverlaysInDocument <= 1)
  /\ [][C12_StartStep]_vars

----------------------------------------------------------------------------
\* A step clears a recorded pressTime, a recorded releaseTime or a set
\* earlyChangeSeen, or replaces pressTime.
CycleFieldCleared ==
  \/ mousedownTimestamp # <<>> /\ mousedownTimestamp' # mousedownTimestamp
  \/ mouseupTimestamp # <<>> /\ mouseupTimestamp' = <<>>
  \/ mutationDetectedBeforeMouseup /\ ~mutationDetectedBeforeMouseup'

C13_ResetStep == CycleFieldCleared => OnMouseDown \/ Cleanup

----------------------------------------------------------------------------
\* The deferral of onMouseUp is pending: the release has happened and
\* startMainMonitoring has not run yet.
DeferralPending == startMonitoringTimeoutId # 0

PostReleaseReportShown(text) ==
  text.head = "DOM Change Detected:" /\ Len(text.lines) = 2

\* C14: One-tick deferral.  While the deferral of a release is pending no
\* observer is connected, so no batch can be delivered and no step in that
\* window changes the display; the post-release report is rendered only by a
\* batch delivered to the primary watcher, which is connected only after the
\* deferral callback has run.
C14_NoSubscriptionWhilePending == DeferralPending => observers = {}

C14_WindowStep ==
  /\ (DeferralPending /\ DeferralPending') => UNCHANGED <<displayText, cycleVars>>
  /\ (PostReleaseReportShown(displayText') /\ displayText' # displayText) =>
        /\ ~DeferralPending
        /\ mutationObserver # 0
        /\ Observer(mutationObserver, "handleMutation") \in observers
        /\ MutationBatch(SingleRecordBatches, FALSE)

C14_OneTickDeferral == []C14_NoSubscriptionWhilePending /\ [][C14_WindowStep]_vars

\* The deferral is still pending 50 ms or more after the release.
C14_Witness ==
  /\ DeferralPending
  /\ observers = {}
  /\ mouseupTimestamp # <<>> /\ now > mouseupTimestamp[1]
  /\ displayText = MonitoringText

----------------------------------------------------------------------------
\* A connected observer is handed a batch whose record is attributable to the
\* overlay.
IgnorableBatchDelivered ==
  \E o \in observers, batch \in SingleRecordBatches :
    /\ ~Qualifying(batch)
    /\ IF o.cb = "handleMutation"
         THEN HandleMutation(batch, FALSE)
         ELSE HandleEarlyMutation(batch, FALSE)

\* C15: A batch in which every record is ignorable leaves the probe's state
\* unchanged: the observer stays connected, the pending deadline timer keeps
\* its due time, pressTime, releaseTime and earlyChangeSeen, the handles and
\* the display are unchanged.
C15_IgnorableStep ==
  IgnorableBatchDelivered =>
    UNCHANGED <<cycleVars, handleVars, timers, observers, displayVars>>

C15_IgnorableBatchChangesNothing == [][C15_IgnorableStep]_vars

\* The primary watcher is armed with its deadline pending, time has passed
\* since it was armed, and the overlay exists to receive its own mutations.
C15_Witness ==
  /\ mutationObserver # 0
  /\ Observer(mutationObserver, "handleMutation") \in observers
  /\ \E t \in DeadlineTimers(timers) : t.id = timeoutId /\ t.due < now + TIMEOUT_DURATION_MS
  /\ displayElement
  /\ displayText = MonitoringText

----------------------------------------------------------------------------
\* C16: Press postcondition.  From every reachable state a primary-button press
\* ends with pressTime = now, releaseTime absent, earlyChangeSeen false, the
\* early watcher as the only connected observer, no primary watcher, no
\* deadline timer and no deferral timer pending, and the waiting status shown.
C16_PressStep ==
  OnMouseDown =>
    /\ mousedownTimestamp' = <<now>>
    /\ mouseupTimestamp' = <<>>
    /\ ~mutationDetectedBeforeMouseup'
    /\ earlyMutationObserver' # 0
    /\ observers' = {Observer(earlyMutationObserver', "handleEarlyMutation")}
    /\ mutationObserver' = 0
    /\ timeoutId' = 0
    /\ startMonitoringTimeoutId' = 0
    /\ \A t \in timers' : t.cb \notin CycleCallbacks
    /\ displayText' = WatchingText
    /\ displayVisible' /\ displayElement'

C16_PressPostcondition == [][C16_PressStep]_vars

\* A press has just overridden a cycle whose deferral was still pending.
C16_Witness ==
  /\ discarded = {"startMainMonitoring"}
  /\ displayText = WatchingText
  /\ mousedownTimestamp = <<now>>
  /\ now > 0

----------------------------------------------------------------------------
\* The cycle is closed: a final outcome of a released cycle is on display and
\* nothing of the session is left.
CycleClosed ==
  /\ PostReleaseReportShown(displayText) \/ displayText = TimeoutText
  /\ observers = {}
  /\ CycleTimers(timers) = {}
  /\ NoHandles

\* A press or a cleanup has ended the released cycle.
CycleAbandoned == mouseupTimestamp = <<>>

\* The bounded clock has stopped before the pending deadline.
ClockExhausted ==
  /\ ticks = MaxTicks
  /\ \E t \in DeadlineTimers(timers) : t.due > now

\* C17: Resolution liveness.  Once a release has recorded releaseTime, then
\* unless a press or a cleanup intervenes (or the bounded clock stops short of
\* the deadline) the cycle is eventually closed: the two-line report or the
\* timeout message is shown and no observer, timer or handle is left.
C17_ResolutionLiveness ==
  (mouseupTimestamp # <<>>) ~> (CycleClosed \/ CycleAbandoned \/ ClockExhausted)

\* A released cycle has been closed by its deadline, with clock steps to spare.
C17_Witness ==
  /\ CycleClosed
  /\ displayText = TimeoutText
  /\ mouseupTimestamp # <<>>
  /\ now >= mouseupTimestamp[1] + TIMEOUT_DURATION_MS
  /\ ticks < MaxTicks

----------------------------------------------------------------------------
\* C18: releaseTime is recorded at most once per cycle.  A primary-button
\* release that finds releaseTime already recorded leaves releaseTime, the
\* deferral, the observers, the deadline timer and everything else of the
\* cycle as they are.
C18_SecondReleaseStep ==
  (OnMouseUp /\ mouseupTimestamp # <<>>) =>
    UNCHANGED <<cycleVars, handleVars, timers, observers, displayVars>>

C18_ReleaseRecordedOnce == [][C18_SecondReleaseStep]_vars

\* The primary watcher is armed, its deadline is pending and the clock has
\* moved on since the release: a second release can arrive now.
C18_Witness ==
  /\ "mouseup" \in listeners
  /\ mouseupTimestamp # <<>> /\ now > mouseupTimestamp[1]
  /\ mutationObserver # 0
  /\ \E t \in DeadlineTimers(timers) : t.id = timeoutId /\ t.due > now

----------------------------------------------------------------------------
\* The text of an outcome: a pre-release report, a post-release report or the
\* timeout message.
Outcome(text) ==
  text.head \in {"DOM Change Detected (Pre-Mouseup):", "DOM Change Detected:",
                 "No relevant DOM change detected"}

\* C19: Each cycle produces at most one outcome.  While an outcome is on
\* display no observer is connected and no deferral or deadline timer is
\* pending, and the only steps that change the displayed outcome are the next
\* press and cleanup.
C19_OutcomeIsFinal ==
  Outcome(displayText) => observers = {} /\ CycleTimers(timers) = {} /\ NoHandles

C19_OutcomeStep ==
  (Outcome(displayText) /\ displayText' # displayText) => OnMouseDown \/ Cleanup

C19_OneOutcomePerCycle == []C19_OutcomeIsFinal /\ [][C19_OutcomeStep]_vars

\* A post-release report is on display two seconds or more after it was
\* rendered, past the time the cancelled deadline would have fired.
C19_Witness ==
  /\ PostReleaseReportShown(displayText)
  /\ mouseupTimestamp # <<>>
  /\ now >= mouseupTimestamp[1] + TIMEOUT_DURATION_MS + 50
  /\ displayText.lines[2].ms # <<>> /\ displayText.lines[2].ms[1] < 10 * TIMEOUT_DURATION_MS

----------------------------------------------------------------------------
\* C20: The invariant-violation branch of startMainMonitoring is unreachable.
\* Whenever a startMainMonitoring timer is pending both timestamps are
\* recorded, so the callback never takes the error branch, and "Click error.
\* Try again." is never on display.
C20_ErrorBranchUnreachable ==
  /\ displayText # ErrorText
  /\ \A t \in timers :
       t.cb = "startMainMonitoring" =>
         /\ mousedownTimestamp # <<>>
         /\ mouseupTimestamp # <<>>
         /\ t.id = startMonitoringTimeoutId

\* The deferral callback has run with both timestamps recorded, the release
\* after the press: observer and deadline are armed, the status is unchanged.
C20_Witness ==
  /\ startMonitoringTimeoutId = 0
  /\ mutationObserver # 0
  /\ timeoutId # 0
  /\ mousedownTimestamp # <<>> /\ mouseupTimestamp # <<>>
  /\ mouseupTimestamp[1] > mousedownTimestamp[1]
  /\ displayText = MonitoringText

----------------------------------------------------------------------------
\* C21: Cycle-field consistency.  In every reachable state: a recorded
\* releaseTime comes with a recorded pressTime that is not later; with
\* earlyChangeSeen set, releaseTime is absent and no observer, deferral or
\* deadline is active; the primary watcher or the deferral is active only with
\* releaseTime recorded and earlyChangeSeen false.
C21_CycleFieldConsistency ==
  /\ mouseupTimestamp # <<>> =>
        /\ mousedownTimestamp # <<>>
        /\ mouseupTimestamp[1] >= mousedownTimestamp[1]
  /\ mutationDetectedBeforeMouseup =>
        /\ mouseupTimestamp = <<>>
        /\ observers = {}
        /\ CycleTimers(timers) = {}
        /\ NoHandles
  /\ (mutationObserver # 0 \/ startMonitoringTimeoutId # 0) =>
        /\ mouseupTimestamp # <<>>
        /\ ~mutationDetectedBeforeMouseup

\* An early resolution is on display, the pointer listeners are attached and
\* the clock has moved on since the report: a release can arrive now.
C21_Witness ==
  /\ mutationDetectedBeforeMouseup
  /\ displayText.head = "DOM Change Detected (Pre-Mouseup):"
  /\ "mouseup" \in listeners
  /\ displayText.lines[1].ms # <<>>
  /\ now > mousedownTimestamp[1] + displayText.lines[1].ms[1] \div 10

----------------------------------------------------------------------------
\* C22: Per-tab active tracking under interleaving.  Once every injectScript
\* and removeScript call started by the clicks has completed (none of them
\* with a rejected scripting call), the tab is in activeTabs, and its badge
\* is ON, iff the in-page monitor is active in the tab.
C22_ActiveTabsConsistent ==
  (ops = {} /\ ~rejected) =>
    \A tab \in Tabs :
      /\ tab \in activeTabs <=> framesMonitorActive
      /\ badgeText = "ON" <=> tab \in activeTabs


====
